---- MODULE Spec2Model ----
(***************************************************************************)
(* A model of sudoku-solver.py: the class SudokuState (constraint          *)
(* propagation plus backtracking) run as a call-stack machine.             *)
(*                                                                         *)
(* A cell of self.state is a Python int (a Fixed cell) or a Python list of *)
(* candidates.  A cell is modelled as a record                             *)
(*     [type |-> "int" | "list", int |-> 0..9, list |-> SUBSET 1..9].      *)
(* Every candidate list is built by setup from range(1, 10) and is only    *)
(* ever shortened by list.remove, so it is always in ascending order: the  *)
(* list is modelled by its set of members, and lst[0] by the minimum.      *)
(* When a list cell is overwritten by an int, the list object lives on in  *)
(* the dictionaries of the frames that fetched it earlier: the field       *)
(* "list" of an int cell is that orphaned list object, never changed       *)
(* again.  copy.deepcopy copies an int as an int, so a deep copy has no    *)
(* orphaned lists (deepcopy below).                                        *)
(***************************************************************************)
EXTENDS Integers, Sequences, FiniteSets, TLC

N == 9
Box == 3

Digits == 1..N
Index == 0..(N - 1)
Pos == Index \X Index

\* itertools.product(range(9), repeat=2): the positions in row-major order
product == [k \in 1..(N * N) |-> <<(k - 1) \div N, (k - 1) % N>>]

\* the return values of the solver's functions
Solved == 1
Incomplete == 0
Unsolvable == -1
LogicFault == -2

IntCell(v) == [type |-> "int", int |-> v, list |-> {}]
ListCell(S) == [type |-> "list", int |-> 0, list |-> S]

Min(S) == CHOOSE x \in S : \A y \in S : x <= y

\* a function of a finite domain, worked out once for all its arguments
Table(f) == f @@ <<>>

\* dict[key] = value keeps the place of a key that is already present
Put(keys, k) == IF \E j \in 1..Len(keys) : keys[j] = k THEN keys ELSE Append(keys, k)

RECURSIVE line_keys(_, _, _)
\* the keys inserted by the iterations 0..i of the row/column loop
line_keys(position, section, i) ==
    IF i < 0 THEN <<>>
    ELSE LET prev == line_keys(position, section, i - 1)
             withRow == IF section[1] THEN Put(prev, <<position[1], i>>) ELSE prev
         IN  IF section[2] THEN Put(withRow, <<i, position[2]>>) ELSE withRow

RECURSIVE box_keys(_, _, _)
\* the keys after the iterations 0..k of the box loop, started from keys
box_keys(position, keys, k) ==
    IF k < 0 THEN keys
    ELSE LET top_box_index == <<position[1] - (position[1] % Box),
                                position[2] - (position[2] % Box)>>
             pos == <<top_box_index[1] + (k \div Box), top_box_index[2] + (k % Box)>>
         IN  Put(box_keys(position, keys, k - 1), pos)

Sections == {s \in [1..3 -> BOOLEAN] : s[1] \/ s[2] \/ s[3]}

\* the keys of the dictionary get_neighbors returns, in insertion order; the
\* values of the dictionary are the cells themselves (not copies) and are read
\* from the state where they are used
neighbor_keys ==
    Table([position \in Pos |-> Table([section \in Sections |->
        LET lines == IF section[1] \/ section[2]
                     THEN line_keys(position, section, N - 1) ELSE <<>>
            all == IF section[3] THEN box_keys(position, lines, Box * Box - 1) ELSE lines
        IN  SelectSeq(all, LAMBDA k : k # position)])])

AllSections == <<TRUE, TRUE, TRUE>>

get_neighbors(position, section) == neighbor_keys[position][section]

Range(seq) == {seq[j] : j \in 1..Len(seq)}

\* is_neighbour, as a relation
is_neighbour(position1, position2) ==
    IF position1 = position2 THEN FALSE
    ELSE IF position1[1] = position2[1] THEN TRUE
    ELSE IF position1[2] = position2[2] THEN TRUE
    ELSE <<position1[1] \div Box, position1[2] \div Box>>
             = <<position2[1] \div Box, position2[2] \div Box>>

\* initial_state with the two indices taken the wrong way round
initial_state_transposed(rows) ==
    [position \in Pos |-> rows[position[2] + 1][position[1] + 1]]

\* self.state = [[int(num) for num in row] for row in state]: the 9x9 array the
\* caller gives, rows[r + 1][c + 1] in 0..9, as a grid indexed by position
initial_state(rows) == [position \in Pos |-> rows[position[1] + 1][position[2] + 1]]

\* setup that looks at the row and the column of a cell and forgets its box
setup_rows_columns(grid) ==
    [position \in Pos |->
        IF grid[position] = 0
        THEN ListCell(Digits \ {grid[q] :
                 q \in Range(get_neighbors(position, <<TRUE, TRUE, FALSE>>))})
        ELSE IntCell(grid[position])]

\* __init__ and setup: every 0 of the input becomes the list of the digits no
\* neighbour holds.  A cell already replaced by a list is not an int, so the
\* order in which setup visits the cells does not matter.
setup(grid) ==
    [position \in Pos |->
        IF grid[position] = 0
        THEN ListCell(Digits \ {grid[q] : q \in Range(get_neighbors(position, AllSections))})
        ELSE IntCell(grid[position])]

get_value_from_pos(st, position) == st[position]

\* get_empty_states: the keys, in row-major order
get_empty_states(st) == SelectSeq(product, LAMBDA p : st[p].type = "list")

\* get_empty_neighbours: the keys, in the order of get_neighbors
get_empty_neighbours(st, position, section) ==
    SelectSeq(get_neighbors(position, section), LAMBDA p : st[p].type = "list")

\* check that looks at the row and the column of a cell and forgets its box
check_rows_columns(st) ==
    IF \E position \in Pos :
          /\ st[position].type = "int"
          /\ \E q \in Range(get_neighbors(position, <<TRUE, TRUE, FALSE>>)) :
                st[q].type = "int" /\ st[q].int = st[position].int
    THEN Unsolvable ELSE 0

\* check: -1 iff some int cell has a neighbour holding the same int (an int
\* never equals a list)
check(st) ==
    IF \E position \in Pos :
          /\ st[position].type = "int"
          /\ \E q \in Range(get_neighbors(position, AllSections)) :
                st[q].type = "int" /\ st[q].int = st[position].int
    THEN Unsolvable ELSE 0

is_solved(st) == IF \E position \in Pos : st[position].type = "list" THEN 0 ELSE 1

\* copy.deepcopy(self.state)
deepcopy(st) == [p \in Pos |-> IF st[p].type = "int" THEN IntCell(st[p].int) ELSE st[p]]

\* get_numpy_proper_state that, for solvable == -1, overwrites the lists only
get_numpy_proper_state_lists_only(st, solvable) ==
    [position \in Pos |->
        IF st[position].type = "list"
        THEN IF solvable = 0 THEN IntCell(0)
             ELSE IF solvable = -1 THEN IntCell(-1)
             ELSE ListCell(st[position].list)
        ELSE IntCell(st[position].int)]

\* get_numpy_proper_state over get_numpy_state: the array holds the cells of the
\* state; solvable == 0 turns the lists into 0, solvable == -1 turns every cell
\* into -1, any other value leaves the array as it is
get_numpy_proper_state(st, solvable) ==
    [position \in Pos |->
        IF solvable = 0
        THEN IF st[position].type = "list" THEN IntCell(0) ELSE IntCell(st[position].int)
        ELSE IF solvable = -1 THEN IntCell(-1)
        ELSE IF st[position].type = "list" THEN ListCell(st[position].list)
        ELSE IntCell(st[position].int)]

\* remove_value: list.remove raises ValueError when the value is not in the list
remove_value_raises(st, position, value) ==
    st[position].type = "list" /\ value \notin st[position].list

remove_value(st, position, value) ==
    [st EXCEPT ![position] = IF @.type = "list" THEN [@ EXCEPT !.list = @ \ {value}] ELSE @]

\* get_sets: the row, the column and the box of a position, the position included
get_sets(position) ==
    [j \in 1..3 |->
        Range(get_neighbors(position, [k \in 1..3 |-> k = j])) \cup {position}]

\* the nine positions narrow checks: one in every row, column and box
narrow_positions ==
    <<<<0, 0>>, <<1, 3>>, <<2, 6>>, <<3, 1>>, <<4, 4>>, <<5, 7>>, <<6, 2>>, <<7, 5>>, <<8, 8>>>>

\* the first loop of narrow: TRUE iff it returns -1, some digit being neither an
\* int of the row, column or box nor in one of its lists
narrow_value_missing(st) ==
    \E j \in 1..Len(narrow_positions) : \E k \in 1..3 :
        LET neighbour_set == get_sets(narrow_positions[j])[k]
        IN  \E value \in Digits :
              /\ ~ \E p \in neighbour_set : st[p].type = "int" /\ st[p].int = value
              /\ ~ \E p \in neighbour_set : st[p].type = "list" /\ value \in st[p].list

\* least_constraining_value: the sort is stable and the dictionary is in list
\* order, so the first item is the smallest digit among those of least count
least_constraining_value(st, position) ==
    LET values == st[position].list
        empty_neighbours == get_empty_neighbours(st, position, AllSections)
        constraints == [v \in values |->
            Cardinality({j \in 1..Len(empty_neighbours) : v \in st[empty_neighbours[j]].list})]
    IN  Min({v \in values : \A w \in values : constraints[v] <= constraints[w]})

\* sorted(list(self.get_empty_states().items()), key=lambda x: len(x[1]))[0][0]
minimum_remaining_values(st) ==
    LET empty == get_empty_states(st)
        len(j) == Cardinality(st[empty[j]].list)
        first == Min({j \in 1..Len(empty) : \A k \in 1..Len(empty) : len(j) <= len(k)})
    IN  empty[first]

VARIABLES
    input,    \* the 9x9 array given to sudoku_solver
    state,    \* self.state
    stack,    \* the call stack, the running frame last
    ret,      \* the value the call that has just returned gave back
    output,   \* what get_solved_numpy returned
    called    \* the methods entered so far

vars == <<input, state, stack, ret, output, called>>

NoRet == [fn |-> "none", value |-> 0]
None == <<>>

Top == stack[Len(stack)]
Running(fn, pc) == Len(stack) > 0 /\ Top.fn = fn /\ Top.pc = pc

\* a call: the caller's frame is updated and the callee's frame is pushed
Call(caller, callee) ==
    /\ stack' = Append([stack EXCEPT ![Len(stack)] = caller], callee)
    /\ ret' = NoRet
    /\ called' = called \cup {callee.fn}

\* return value: the frame is popped
Return(value) ==
    /\ stack' = SubSeq(stack, 1, Len(stack) - 1)
    /\ ret' = [fn |-> Top.fn, value |-> value]
    /\ called' = called

\* a step inside the running frame
Goto(frame) ==
    /\ stack' = [stack EXCEPT ![Len(stack)] = frame]
    /\ ret' = NoRet
    /\ called' = called

solve_frame ==
    [fn |-> "solve", pc |-> "start", square_to_edit |-> None, state_copy |-> None,
     guess_of_value |-> 0, guesses |-> <<>>]

narrow_frame == [fn |-> "narrow", pc |-> "start", emtpy_squares |-> <<>>, i |-> 0]

fill_in_square_frame(position, value) ==
    [fn |-> "fill_in_square", pc |-> "start", position |-> position, value |-> value,
     empty_neighbours |-> <<>>, reduced_positions |-> <<>>, i |-> 0]

analise_empty_value_frame(position) ==
    [fn |-> "analise_empty_value", pc |-> "start", position |-> position,
     current_possible_values |-> {}, emtpy_neighbour_sets |-> <<>>, index |-> 0, value |-> 0]

Raise(exception) ==
    /\ stack' = <<>>
    /\ ret' = NoRet
    /\ called' = called
    /\ output' = [status |-> "raised", grid |-> exception]

----------------------------------------------------------------------------
\* fill_in_square

\* the list object a frame fetched for a position before the position was
\* filled in: the list of the cell, or the orphaned list of an int cell
fetched_list(st, pos) == st[pos].list

RECURSIVE remove_from_first_neighbour(_, _, _, _, _)
\* the loop over empty_neighbours that ends after the first removal
remove_from_first_neighbour(st, empty_neighbours, value, j, reduced_positions) ==
    IF j > Len(empty_neighbours)
    THEN [state |-> st, reduced_positions |-> reduced_positions, outcome |-> 0]
    ELSE LET neighbour_position == empty_neighbours[j]
         IN  IF value \in fetched_list(st, neighbour_position)
             THEN [state |-> remove_value(st, neighbour_position, value),
                   reduced_positions |-> Append(reduced_positions, neighbour_position),
                   outcome |-> 0]
             ELSE IF fetched_list(st, neighbour_position) = {}
             THEN [state |-> st, reduced_positions |-> reduced_positions, outcome |-> -1]
             ELSE remove_from_first_neighbour(st, empty_neighbours, value, j + 1,
                      reduced_positions)

RECURSIVE remove_from_neighbours(_, _, _, _, _)
\* the loop over empty_neighbours from its j-th key on: the value is removed from
\* every list that holds it; an empty list ends the loop with -1
remove_from_neighbours(st, empty_neighbours, value, j, reduced_positions) ==
    IF j > Len(empty_neighbours)
    THEN [state |-> st, reduced_positions |-> reduced_positions, outcome |-> 0]
    ELSE LET neighbour_position == empty_neighbours[j]
         IN  IF value \in fetched_list(st, neighbour_position)
             THEN remove_from_neighbours(remove_value(st, neighbour_position, value),
                      empty_neighbours, value, j + 1,
                      Append(reduced_positions, neighbour_position))
             ELSE IF fetched_list(st, neighbour_position) = {}
             THEN [state |-> st, reduced_positions |-> reduced_positions, outcome |-> -1]
             ELSE remove_from_neighbours(st, empty_neighbours, value, j + 1,
                      reduced_positions)

\* self.state[position[0]][position[1]] = value
set_value(st, position, value) ==
    [st EXCEPT ![position] = [type |-> "int", int |-> value, list |-> @.list]]

\* the next reduced position is analysed, or the loop is over and 0 is returned
fill_in_square_next(frame) ==
    IF frame.i < Len(frame.reduced_positions)
    THEN Call([frame EXCEPT !.pc = "analysed", !.i = @ + 1],
              analise_empty_value_frame(frame.reduced_positions[frame.i + 1]))
    ELSE Return(0)

\* from the entry to the first call of analise_empty_value
fill_in_square_start ==
    /\ Running("fill_in_square", "start")
    /\ LET position == Top.position
           value == Top.value
           empty_neighbours == get_empty_neighbours(state, position, AllSections)
       IN  IF state[position].type = "list"
           THEN LET r == remove_from_neighbours(set_value(state, position, value),
                                                empty_neighbours, value, 1, <<>>)
                IN  /\ state' = r.state
                    /\ IF r.outcome = -1
                       THEN Return(-1)
                       ELSE fill_in_square_next(
                                [Top EXCEPT !.empty_neighbours = empty_neighbours,
                                            !.reduced_positions = r.reduced_positions])
           ELSE Return(-2) /\ state' = state
    /\ UNCHANGED <<input, output>>

\* fill_in_square that does not fill in a reduced position left with one value
fill_in_square_analysed_no_cascade ==
    /\ Running("fill_in_square", "analysed")
    /\ LET reduced_position == Top.reduced_positions[Top.i]
           cell == get_value_from_pos(state, reduced_position)
       IN  IF ret.value = -1 THEN Return(-1)
           ELSE IF cell.type = "int" THEN fill_in_square_next(Top)
           ELSE IF Cardinality(cell.list) = 0 THEN Return(-1)
           ELSE fill_in_square_next(Top)
    /\ UNCHANGED <<input, state, output>>

\* analise_empty_value(reduced_position) has returned
fill_in_square_analysed ==
    /\ Running("fill_in_square", "analysed")
    /\ LET reduced_position == Top.reduced_positions[Top.i]
           cell == get_value_from_pos(state, reduced_position)
       IN  IF ret.value = -1 THEN Return(-1)
           ELSE IF cell.type = "int" THEN fill_in_square_next(Top)
           ELSE IF Cardinality(cell.list) = 0 THEN Return(-1)
           ELSE IF Cardinality(cell.list) = 1
           THEN Call([Top EXCEPT !.pc = "recursed"],
                     fill_in_square_frame(reduced_position,
                                          Min(fetched_list(state, reduced_position))))
           ELSE fill_in_square_next(Top)
    /\ UNCHANGED <<input, state, output>>

\* the recursive fill_in_square has returned
fill_in_square_recursed ==
    /\ Running("fill_in_square", "recursed")
    /\ IF ret.value = -1 THEN Return(-1) ELSE fill_in_square_next(Top)
    /\ UNCHANGED <<input, state, output>>

----------------------------------------------------------------------------
\* analise_empty_value

\* the possible values emtpy_neighbour_set holds for pos: the copy made at the
\* entry for the analysed position, the fetched list object for a neighbour
possible_values(frame, st, pos) ==
    IF pos = frame.position THEN frame.current_possible_values ELSE fetched_list(st, pos)

\* counts[value] for emtpy_neighbour_sets[index]
counts(frame, st, index, value) ==
    SelectSeq(frame.emtpy_neighbour_sets[index + 1],
              LAMBDA pos : value \in possible_values(frame, st, pos))

\* the test without its second half: the square may have been filled in already
hidden_single_any_type(frame, st, k) ==
    Len(counts(frame, st, k \div N, (k % N) + 1)) = 1

\* the test that takes the first place of a value for its only place
hidden_single_first_place(frame, st, k) ==
    LET c == counts(frame, st, k \div N, (k % N) + 1)
    IN  Len(c) >= 1 /\ get_value_from_pos(st, c[1]).type = "list"

\* the test of line 250 at the k-th pair (index, value) of the two loops
hidden_single(frame, st, k) ==
    LET c == counts(frame, st, k \div N, (k % N) + 1)
    IN  Len(c) = 1 /\ get_value_from_pos(st, c[1]).type = "list"

\* the loops run on from the k0-th pair to the next fill_in_square or to return 0
analise_empty_value_scan(frame, k0) ==
    LET found == {k \in k0..(3 * N - 1) : hidden_single(frame, state, k)}
    IN  IF found = {} THEN Return(0)
        ELSE LET k == Min(found)
                 index == k \div N
                 value == (k % N) + 1
             IN  Call([frame EXCEPT !.pc = "filled", !.index = index, !.value = value],
                      fill_in_square_frame(counts(frame, state, index, value)[1], value))

analise_empty_value_start ==
    /\ Running("analise_empty_value", "start")
    /\ LET position == Top.position
           current_possible_values == get_value_from_pos(state, position)
       IN  IF current_possible_values.type = "int" THEN Return(0)
           ELSE IF Cardinality(current_possible_values.list) = 0 THEN Return(-1)
           ELSE analise_empty_value_scan(
                    [Top EXCEPT !.current_possible_values = current_possible_values.list,
                                !.emtpy_neighbour_sets =
                                    [i \in 1..3 |->
                                        Append(get_empty_neighbours(state, position,
                                                   [k \in 1..3 |-> k = i]),
                                               position)]],
                    0)
    /\ UNCHANGED <<input, state, output>>

\* fill_in_square(counts[value][0], value) has returned
analise_empty_value_filled ==
    /\ Running("analise_empty_value", "filled")
    /\ IF ret.value = -1 THEN Return(-1)
       ELSE analise_empty_value_scan(Top, Top.index * N + Top.value)
    /\ UNCHANGED <<input, state, output>>

----------------------------------------------------------------------------
\* narrow

\* the sweep runs on from the j0-th empty square to the next fill_in_square or
\* to a return
narrow_scan(frame, j0) ==
    LET found == {j \in j0..Len(frame.emtpy_squares) :
                     LET cell == get_value_from_pos(state, frame.emtpy_squares[j])
                     IN  cell.type = "list" /\ Cardinality(cell.list) <= 1}
    IN  IF found = {} THEN Return(0)
        ELSE LET empty_pos == frame.emtpy_squares[Min(found)]
             IN  IF Cardinality(get_value_from_pos(state, empty_pos).list) = 1
                 THEN Call([frame EXCEPT !.pc = "filled", !.i = Min(found)],
                           fill_in_square_frame(empty_pos,
                                                Min(fetched_list(state, empty_pos))))
                 ELSE Return(-1)

narrow_start ==
    /\ Running("narrow", "start")
    /\ IF narrow_value_missing(state) THEN Return(-1)
       ELSE LET emtpy_squares == get_empty_states(state)
            IN  IF Len(emtpy_squares) = 0 THEN Return(1)
                ELSE narrow_scan([Top EXCEPT !.emtpy_squares = emtpy_squares], 1)
    /\ UNCHANGED <<input, state, output>>

\* fill_in_square(empty_pos, ...) has returned
narrow_filled ==
    /\ Running("narrow", "filled")
    /\ IF ret.value = -1 THEN Return(-1) ELSE narrow_scan(Top, Top.i + 1)
    /\ UNCHANGED <<input, state, output>>

----------------------------------------------------------------------------
\* solve

solve_start ==
    /\ Running("solve", "start")
    /\ Call([Top EXCEPT !.pc = "narrowed"], narrow_frame)
    /\ UNCHANGED <<input, state, output>>

\* narrow has returned: its outcome, or the square to edit and the copy
solve_narrowed ==
    /\ Running("solve", "narrowed")
    /\ IF ret.value # 0 THEN Return(ret.value)
       ELSE IF is_solved(state) = 1 THEN Return(1)
       ELSE Goto([Top EXCEPT !.pc = "loop",
                             !.square_to_edit = minimum_remaining_values(state),
                             !.state_copy = deepcopy(state)])
    /\ UNCHANGED <<input, state, output>>

\* the test of the while loop, then the guess or the end of solve
solve_loop ==
    /\ Running("solve", "loop")
    /\ LET cell == get_value_from_pos(state, Top.square_to_edit)
       IN  IF cell.type = "list" /\ cell.list # {}
           THEN LET guess_of_value == least_constraining_value(state, Top.square_to_edit)
                IN  Call([Top EXCEPT !.pc = "guessed", !.guess_of_value = guess_of_value,
                                     !.guesses = Append(@, guess_of_value)],
                         fill_in_square_frame(Top.square_to_edit, guess_of_value))
           ELSE IF cell.type = "list" THEN Return(-1)
           ELSE Call([Top EXCEPT !.pc = "last"], solve_frame)
    /\ UNCHANGED <<input, state, output>>

\* solve that restores the copy and leaves the failed guess in the list of the
\* square, ready to be guessed again
solve_restore_keeps_guess ==
    /\ state' = deepcopy(Top.state_copy)
    /\ Goto([Top EXCEPT !.pc = "restored",
                        !.guesses = SubSeq(@, 1, Len(@) - 1)])
    /\ output' = output

\* solve that removes the failed guess without restoring the copy
solve_restore_without_copy ==
    IF remove_value_raises(state, Top.square_to_edit, Top.guess_of_value)
    THEN Raise("ValueError") /\ state' = state
    ELSE /\ state' = remove_value(state, Top.square_to_edit, Top.guess_of_value)
         /\ Goto([Top EXCEPT !.pc = "restored"])
         /\ output' = output

\* the guess is known to fail: the copy is restored and the guess removed
solve_restore ==
    IF remove_value_raises(deepcopy(Top.state_copy), Top.square_to_edit, Top.guess_of_value)
    THEN Raise("ValueError") /\ state' = deepcopy(Top.state_copy)
    ELSE /\ state' = remove_value(deepcopy(Top.state_copy), Top.square_to_edit,
                                  Top.guess_of_value)
         /\ Goto([Top EXCEPT !.pc = "restored"])
         /\ output' = output

\* what follows outcome_of_guess
solve_outcome(outcome_of_guess) ==
    IF outcome_of_guess = 1 THEN Return(1) /\ UNCHANGED <<state, output>>
    ELSE IF outcome_of_guess = -1 THEN solve_restore
    ELSE Goto([Top EXCEPT !.pc = "loop"]) /\ UNCHANGED <<state, output>>

\* fill_in_square(square_to_edit, guess_of_value) has returned
solve_guessed ==
    /\ Running("solve", "guessed")
    /\ IF ret.value = 0
       THEN Call([Top EXCEPT !.pc = "recursed"], solve_frame) /\ UNCHANGED <<state, output>>
       ELSE solve_outcome(ret.value)
    /\ UNCHANGED input

\* the recursive solve() has returned
solve_recursed ==
    /\ Running("solve", "recursed")
    /\ solve_outcome(ret.value)
    /\ UNCHANGED input

\* the restored state is analysed
solve_restored ==
    /\ Running("solve", "restored")
    /\ Call([Top EXCEPT !.pc = "analysed"], analise_empty_value_frame(Top.square_to_edit))
    /\ UNCHANGED <<input, state, output>>

\* analise_empty_value(square_to_edit) has returned
solve_analysed ==
    /\ Running("solve", "analysed")
    /\ IF ret.value = -1 THEN Return(-1)
       ELSE Goto([Top EXCEPT !.pc = "loop", !.state_copy = deepcopy(state)])
    /\ UNCHANGED <<input, state, output>>

\* return self.solve()
solve_last ==
    /\ Running("solve", "last")
    /\ Return(ret.value)
    /\ UNCHANGED <<input, state, output>>

----------------------------------------------------------------------------
\* get_solved_numpy, called by sudoku_solver

get_solved_numpy_frame == [fn |-> "get_solved_numpy", pc |-> "start"]

get_solved_numpy_start ==
    /\ Running("get_solved_numpy", "start")
    /\ LET is_already_unsolvable == check(state)
       IN  IF is_already_unsolvable = -1
           THEN /\ Return(get_numpy_proper_state(state, -1))
                /\ output' = [status |-> "returned",
                              grid |-> get_numpy_proper_state(state, -1)]
           ELSE /\ Call([Top EXCEPT !.pc = "solved"], solve_frame)
                /\ output' = output
    /\ UNCHANGED <<input, state>>

\* solve() has returned
get_solved_numpy_solved ==
    /\ Running("get_solved_numpy", "solved")
    /\ Return(get_numpy_proper_state(state, ret.value))
    /\ output' = [status |-> "returned", grid |-> get_numpy_proper_state(state, ret.value)]
    /\ UNCHANGED <<input, state>>

----------------------------------------------------------------------------
\* The inputs of the runs: a filled-in valid grid, a puzzle of one solution that
\* takes guesses, and two puzzles of no solution that pass check; and each of
\* them with one cell overwritten by a digit or emptied.
filled_in_grid ==
    [r \in 1..N |-> [c \in 1..N |->
        ((Box * ((r - 1) % Box) + ((r - 1) \div Box) + (c - 1)) % N) + 1]]

Puzzles ==
    << filled_in_grid,
       <<<<0, 7, 0, 0, 6, 0, 0, 0, 1>>,
         <<9, 2, 6, 0, 5, 1, 4, 7, 0>>,
         <<0, 0, 0, 0, 0, 3, 0, 0, 9>>,
         <<0, 5, 0, 4, 0, 0, 0, 0, 0>>,
         <<8, 0, 0, 0, 9, 0, 1, 0, 0>>,
         <<7, 6, 0, 0, 1, 2, 0, 0, 8>>,
         <<6, 1, 0, 0, 0, 0, 0, 0, 0>>,
         <<0, 3, 8, 0, 7, 4, 0, 0, 0>>,
         <<0, 0, 7, 0, 0, 6, 0, 3, 0>>>>,
       <<<<0, 7, 0, 8, 1, 3, 0, 0, 9>>,
         <<8, 0, 0, 0, 0, 0, 6, 0, 0>>,
         <<0, 0, 5, 0, 7, 6, 3, 1, 0>>,
         <<0, 0, 4, 0, 0, 8, 0, 5, 1>>,
         <<0, 0, 9, 0, 6, 0, 0, 3, 7>>,
         <<0, 0, 0, 1, 5, 0, 0, 0, 2>>,
         <<0, 0, 0, 0, 0, 0, 0, 8, 0>>,
         <<0, 0, 0, 0, 0, 7, 1, 0, 0>>,
         <<0, 0, 0, 0, 0, 4, 0, 0, 0>>>>,
       <<<<0, 7, 0, 5, 9, 0, 0, 0, 0>>,
         <<0, 0, 0, 0, 0, 0, 0, 0, 0>>,
         <<0, 0, 0, 0, 3, 7, 6, 0, 1>>,
         <<0, 0, 0, 1, 0, 9, 0, 0, 7>>,
         <<5, 0, 3, 0, 0, 0, 9, 0, 0>>,
         <<0, 0, 4, 3, 0, 0, 0, 0, 0>>,
         <<0, 1, 2, 0, 0, 0, 5, 0, 0>>,
         <<0, 0, 0, 0, 0, 0, 0, 0, 0>>,
         <<3, 0, 0, 4, 0, 0, 0, 0, 0>>>> >>

\* the cells an input may have overwritten
edit_positions == <<<<4, 4>>, <<0, 1>>, <<8, 8>>, <<2, 6>>>>

NumEdits == 2

edit(grid, position, digit) ==
    [grid EXCEPT ![position[1] + 1][position[2] + 1] = digit]

Inputs ==
    Range(Puzzles)
    \cup {edit(Puzzles[i], edit_positions[j], digit) :
             i \in 1..Len(Puzzles), j \in 1..NumEdits, digit \in 0..N}

Init ==
    /\ input \in Inputs
    /\ state = setup(initial_state(input))
    /\ stack = <<get_solved_numpy_frame>>
    /\ ret = NoRet
    /\ output = [status |-> "running", grid |-> None]
    /\ called = {}

Next ==
    \/ get_solved_numpy_start
    \/ get_solved_numpy_solved
    \/ solve_start
    \/ solve_narrowed
    \/ solve_loop
    \/ solve_guessed
    \/ solve_recursed
    \/ solve_restored
    \/ solve_analysed
    \/ solve_last
    \/ narrow_start
    \/ narrow_filled
    \/ fill_in_square_start
    \/ fill_in_square_analysed
    \/ fill_in_square_recursed
    \/ analise_empty_value_start
    \/ analise_empty_value_filled

Spec == Init /\ [][Next]_vars

\* the interpreter runs the next statement for as long as there is one
LiveSpec == Spec /\ WF_vars(Next)

----------------------------------------------------------------------------
\* What the claims speak of

\* the digit the caller gave at a position (0: none)
given(position) == input[position[1] + 1][position[2] + 1]

\* the 27 units: the rows, the columns and the boxes
Units ==
    {{<<r, c>> : c \in Index} : r \in Index}
    \cup {{<<r, c>> : r \in Index} : c \in Index}
    \cup {{<<Box * a + (k \div Box), Box * b + (k % Box)>> : k \in 0..(Box * Box - 1)} :
             a \in 0..(Box - 1), b \in 0..(Box - 1)}

Peers ==
    Table([p \in Pos |->
        Range(SelectSeq(product, LAMBDA q : q # p /\ \E u \in Units : p \in u /\ q \in u))])

\* get_solved_numpy has returned a grid
Returned == output.status = "returned"

\* the Unsolvable output: every cell is -1
AllMinusOne(grid) == \A p \in Pos : grid[p] = IntCell(-1)

\* every cell is a single digit 1..9
AllDigits(grid) == \A p \in Pos : grid[p].type = "int" /\ grid[p].int \in Digits

\* a Solved output: returned, and not the all -1 grid
SolvedOutput == Returned /\ ~ AllMinusOne(output.grid)

\* every unit holds each digit exactly once
ValidGrid(grid) ==
    \A u \in Units : \A d \in Digits :
        Cardinality({p \in u : grid[p].type = "int" /\ grid[p].int = d}) = 1

\* two cells of one unit hold the same nonzero digit in the input
InputHasDuplicate ==
    \E p \in Pos : given(p) # 0 /\ \E q \in Peers[p] : given(q) = given(p)

\* two Fixed cells of one unit hold the same digit
FixedConflict(st) ==
    \E p \in Pos : st[p].type = "int" /\
        \E q \in Peers[p] : st[q].type = "int" /\ st[q].int = st[p].int

\* a list holds a digit that a Fixed cell of one of its units holds
StaleCandidate(st) ==
    \E p \in Pos : st[p].type = "list" /\
        \E q \in Peers[p] : st[q].type = "int" /\ st[q].int \in st[p].list

\* the valid completions of a grid of digits (0: empty), at most limit of them.
\* A digit is forced on a cell if no other digit fits the cell, or if the cell
\* is the only empty cell of one of its units that the digit fits.  A grid with
\* a cell that nothing fits, a unit lacking a digit that fits none of its cells,
\* or forced digits that clash has no completion; otherwise the forced digits
\* are filled in together, and when nothing is forced every fitting digit is
\* tried in the first empty cell of fewest fitting digits.
free(g, p) == Digits \ {g[q] : q \in Peers[p]}

RECURSIVE completions(_, _, _)
RECURSIVE try_digits(_, _, _, _, _)
completions(g, found, limit) ==
    IF Cardinality(found) >= limit THEN found
    ELSE LET empty == Range(SelectSeq(product, LAMBDA p : g[p] = 0))
         IN  IF empty = {} THEN found \cup {g}
             ELSE LET fits == Table([p \in empty |-> free(g, p)])
                      wanted == {ud \in Units \X Digits : \A p \in ud[1] : g[p] # ud[2]}
                      places == Table([ud \in wanted |->
                                    {p \in ud[1] \cap empty : ud[2] \in fits[p]}])
                      forced == {<<p, Min(fits[p])>> : p \in {q \in empty :
                                                               Cardinality(fits[q]) = 1}}
                                \cup {<<CHOOSE p \in places[ud] : TRUE, ud[2]>> :
                                         ud \in {w \in wanted : Cardinality(places[w]) = 1}}
                      filled == Table([p \in Pos |->
                                    IF \E a \in forced : a[1] = p
                                    THEN (CHOOSE a \in forced : a[1] = p)[2] ELSE g[p]])
                      fewest == Min({Cardinality(fits[p]) : p \in empty})
                      p == CHOOSE p \in empty : Cardinality(fits[p]) = fewest
                  IN  IF fewest = 0 \/ \E ud \in wanted : places[ud] = {} THEN found
                      ELSE IF forced = {} THEN try_digits(g, p, fits[p], found, limit)
                      ELSE IF \E a, b \in forced :
                                 /\ a # b
                                 /\ a[1] = b[1] \/ (a[2] = b[2] /\ b[1] \in Peers[a[1]])
                      THEN found
                      ELSE completions(filled, found, limit)

try_digits(g, p, ds, found, limit) ==
    IF ds = {} THEN found
    ELSE LET d == Min(ds)
             tried == completions(Table([g EXCEPT ![p] = d]), found, limit)
         IN  try_digits(g, p, ds \ {d}, tried, limit)

\* the completions of the input, at most two of them
InputCompletions ==
    IF InputHasDuplicate THEN {}
    ELSE completions([p \in Pos |-> given(p)], {}, 2)

\* the grid is a valid completion of the input
IsCompletion(grid) ==
    /\ AllDigits(grid)
    /\ ValidGrid(grid)
    /\ \A p \in Pos : given(p) # 0 => grid[p].int = given(p)

\* the output grid holds exactly the digits of g
OutputIs(g) == \A p \in Pos : output.grid[p] = IntCell(g[p])

\* C1: a Solved output holds each digit exactly once in every row, column and box
ValidityOfSolved == SolvedOutput => ValidGrid(output.grid)

ValidityWitness ==
    /\ SolvedOutput
    /\ ValidGrid(output.grid)
    /\ \E p \in Pos : given(p) = 0
    /\ {"fill_in_square", "analise_empty_value"} \subseteq called

\* C2: for an input of exactly one valid completion, the output is a valid
\* completion of the input, and so that completion
UniqueSolutionReturned ==
    Returned => IsCompletion(output.grid) \/ Cardinality(InputCompletions) # 1

UniqueSolutionWitness ==
    /\ Returned
    /\ "analise_empty_value" \in called
    /\ \A r \in Index : \E c \in Index : given(<<r, c>>) # 0
    /\ Cardinality(InputCompletions) = 1
    /\ \A g \in InputCompletions : OutputIs(g)

\* C3: a cell given in the input keeps its digit in every state of the run and in
\* a Solved output
GivenCellsKept ==
    \A p \in Pos : given(p) # 0 =>
        /\ state[p].type = "int" /\ state[p].int = given(p)
        /\ SolvedOutput => output.grid[p] = IntCell(given(p))

GivenCellsWitness ==
    /\ SolvedOutput
    /\ \E p \in Pos : given(p) # 0
    /\ \E p \in Pos : given(p) = 0
    /\ {"solve", "narrow", "analise_empty_value"} \subseteq called

\* C4: an input with a duplicate in a unit gives the all -1 grid from check alone:
\* narrow, fill_in_square and solve are never entered
DuplicateRejectedByCheck ==
    InputHasDuplicate =>
        /\ called \cap {"narrow", "fill_in_square", "solve", "analise_empty_value"} = {}
        /\ output.status # "raised"
        /\ Returned => AllMinusOne(output.grid)

DuplicateWitness == InputHasDuplicate /\ Returned /\ \E p \in Pos : given(p) = 0

\* C5: the output is all digits or all -1; solve returns only 1 or -1, and 1 only
\* when no cell holds a list
NoPartialOutput ==
    /\ output.status # "raised"
    /\ Returned => AllDigits(output.grid) \/ AllMinusOne(output.grid)
    /\ ret.fn = "solve" => ret.value \in {1, -1}
    /\ ret.fn = "solve" /\ ret.value = 1 => \A p \in Pos : state[p].type = "int"

NoPartialOutputWitness ==
    /\ ret.fn = "solve" /\ ret.value = 1
    /\ Len(stack) > 1
    /\ \E p \in Pos : given(p) = 0

\* C6: from an input that passes check, no two Fixed cells of one unit ever hold
\* the same digit
NoFixedConflict == ~ InputHasDuplicate => ~ FixedConflict(state)

\* C7: every call fill_in_square(position, value) passes a candidate of the position
FillValueIsCandidate ==
    Running("fill_in_square", "start") =>
        Top.value \in get_value_from_pos(state, Top.position).list

\* C8: after setup, and whenever fill_in_square or narrow has returned 0, no list
\* holds a digit that a Fixed cell of the same row, column or box holds
NoStaleCandidate ==
    \/ Running("get_solved_numpy", "start")
    \/ ret.fn \in {"fill_in_square", "narrow"} /\ ret.value = 0
    => ~ StaleCandidate(state)

NoStaleCandidateWitness ==
    /\ ret.fn = "fill_in_square" /\ ret.value = 0
    /\ \E p \in Pos : state[p].type = "list"
    /\ Len(stack) > 4

\* C9: whenever narrow returns 0, every list holds at least two candidates
NarrowLeavesNoSingle ==
    ret.fn = "narrow" /\ ret.value = 0 =>
        \A p \in Pos : state[p].type = "list" => Cardinality(state[p].list) >= 2

NarrowLeavesNoSingleWitness ==
    /\ ret.fn = "narrow" /\ ret.value = 0
    /\ \E p \in Pos : state[p].type = "list"
    /\ \E p \in Pos : given(p) = 0 /\ state[p].type = "int"

\* C10: after a failed guess of d at c the state is the copy taken before the
\* guess, with d removed from the list of c and nothing else changed; within one
\* frame of solve no digit is guessed twice
FailedGuessRestored ==
    /\ Running("solve", "restored") =>
          LET c == Top.square_to_edit
              d == Top.guess_of_value
          IN  /\ \A p \in Pos \ {c} : state[p] = Top.state_copy[p]
              /\ Top.state_copy[c].type = "list"
              /\ d \in Top.state_copy[c].list
              /\ state[c] = ListCell(Top.state_copy[c].list \ {d})
    /\ \A k \in 1..Len(stack) : stack[k].fn = "solve" =>
          \A a, b \in 1..Len(stack[k].guesses) :
              a # b => stack[k].guesses[a] # stack[k].guesses[b]

FailedGuessWitness ==
    /\ Running("solve", "restored")
    /\ Len(Top.guesses) > 1
    /\ \E p \in Pos : Top.state_copy[p].type = "list" /\ state[p] # Top.state_copy[p]

\* C11: fill_in_square is never entered for a position that holds an int, and no
\* call of fill_in_square returns -2
NeverFillsFixed ==
    /\ Running("fill_in_square", "start") =>
          get_value_from_pos(state, Top.position).type = "list"
    /\ ret.fn = "fill_in_square" => ret.value # LogicFault

\* the hidden-single step has filled in the analysed position itself and goes on
\* counting with the copy of its list
NeverFillsFixedWitness ==
    /\ Running("analise_empty_value", "filled")
    /\ ret.fn = "fill_in_square" /\ ret.value = 0
    /\ get_value_from_pos(state, Top.position).type = "int"
    /\ Top.index * N + Top.value < 3 * N

----------------------------------------------------------------------------
\* remove_value, called on its own: on the state setup leaves for an input, for a
\* position and a value

remove_value_frame(position, value) ==
    [fn |-> "remove_value", pc |-> "start", position |-> position, value |-> value]

\* if type(...) is list: ....remove(value)
remove_value_start ==
    /\ Running("remove_value", "start")
    /\ IF remove_value_raises(state, Top.position, Top.value)
       THEN Raise("ValueError") /\ state' = state
       ELSE /\ state' = remove_value(state, Top.position, Top.value)
            /\ Goto([Top EXCEPT !.pc = "done"])
            /\ output' = output
    /\ UNCHANGED input

\* the end of the function: None is returned
remove_value_done ==
    /\ Running("remove_value", "done")
    /\ Return(None)
    /\ UNCHANGED <<input, state, output>>

\* the positions remove_value is called for
remove_value_positions == Range(edit_positions)

remove_value_Init ==
    /\ input \in Inputs
    /\ state = setup(initial_state(input))
    /\ \E position \in remove_value_positions : \E value \in Digits :
          stack = <<remove_value_frame(position, value)>>
    /\ ret = NoRet
    /\ output = [status |-> "running", grid |-> None]
    /\ called = {"remove_value"}

remove_value_Next ==
    \/ remove_value_start
    \/ remove_value_done

remove_value_Spec == remove_value_Init /\ [][remove_value_Next]_vars

\* C12: remove_value raises no error; it leaves the grid as it was when the cell
\* is an int or a list without the value, and otherwise takes the value out of
\* the list of the cell and changes nothing else
RemoveValueFrameEffect ==
    /\ output.status # "raised"
    /\ Running("remove_value", "done") =>
          LET before == setup(initial_state(input))
              cell == before[Top.position]
          IN  IF cell.type = "int" \/ Top.value \notin cell.list
              THEN state = before
              ELSE state = [before EXCEPT ![Top.position] =
                                ListCell(cell.list \ {Top.value})]

\* C13: every run of get_solved_numpy comes to its return, of a grid of digits
\* or of the all -1 grid
Termination == <>(Returned /\ (AllDigits(output.grid) \/ AllMinusOne(output.grid)))

\* the recursive solve() of the last line of solve has returned, in a frame that
\* took a guess: the square to edit was filled in by the analysis after a failed
\* guess
TerminationWitness ==
    /\ Running("solve", "last")
    /\ ret.fn = "solve"
    /\ Len(Top.guesses) >= 1
    /\ get_value_from_pos(state, Top.square_to_edit).type = "int"
====
